---- MODULE Spec2Model ----
(***************************************************************************)
(* DpStBoundaryMapper (modules/planning/optimizer/dp_st_speed): maps the   *)
(* static and dynamic obstacles of one planning cycle to boundaries of the *)
(* station-time graph.                                                     *)
(*                                                                         *)
(* Stations and times are integers; one unit of station is the tolerance   *)
(* of Double::compare.  Indices are the code's 0-based std::uint32_t       *)
(* indices; veh_path[k] is path[k + 1].  The result of check_overlap for   *)
(* an obstacle box is given per path sample as the set `ov` of the         *)
(* (1-based) samples whose vehicle box overlaps the box.                   *)
(***************************************************************************)
EXTENDS Integers, Sequences, FiniteSets

VARIABLES op, path, planning_distance, planning_time, static_obs, dynamic_obs,
          obstacle, pre_boundary, obs_boundary, status, scan, built, mapped

vars == <<op, path, planning_distance, planning_time, static_obs, dynamic_obs,
          obstacle, pre_boundary, obs_boundary, status, scan, built, mapped>>

(***************************************************************************)
(* Bounds of the model and the input values.                               *)
(***************************************************************************)
MaxPathLen == 3

MaxObs == 2

MaxTraj == 2

MaxSamples == 2

Stations == {0, 1, 3}

PlanningDistances == {2, 4}

PlanningTimes == {-1, 0, 2}

(***************************************************************************)
(* The cursors are std::uint32_t.  TLC's integers are 32 bits wide and     *)
(* signed, so the modulus 2^32 of the cursors is scaled to 2^16: still far *)
(* above every path length, and 0 - 1 still wraps to the largest value.    *)
(***************************************************************************)
UIntModulus == 65536

Epsilon == 1

Min(a, b) == IF a < b THEN a ELSE b

SetMin(S) == CHOOSE x \in S : \A y \in S : x <= y

SetMax(S) == CHOOSE x \in S : \A y \in S : x >= y

(***************************************************************************)
(* Bind(x, F) is F(x) with x evaluated once: a local variable of the code. *)
(***************************************************************************)
Bind(x, F(_)) == CHOOSE r \in {F(v) : v \in {x}} : TRUE

RECURSIVE Reverse(_)
Reverse(s) == IF s = <<>> THEN <<>> ELSE Append(Reverse(Tail(s)), Head(s))

(***************************************************************************)
(* Status values: Status::OK(), or PLANNING_ERROR with the code's message. *)
(* Crashed stands for a call that executed undefined behaviour and did not *)
(* return.                                                                 *)
(***************************************************************************)
OK == "OK"

ErrPlanningTime == "Fail to get params since planning_time < 0."

ErrPathPoints == "Fail to get params"

ErrMapStatic == "Fail to map static obstacle with id"

ErrMapDynamic == "Fail to map dynamic obstacle with id"

ErrPathEmpty == "[DP_ST_BOUNDARY_MAPPER] Vehicle path empty."

Crashed == "crashed"

STPoint(s, t) == <<s, t>>

(***************************************************************************)
(* Double::compare: -1, 0 or 1, equal within the tolerance.                *)
(***************************************************************************)
DoubleCompare(a, b) ==
  IF a - b > Epsilon THEN 1 ELSE IF b - a > Epsilon THEN -1 ELSE 0

(***************************************************************************)
(* check_overlap(veh_path[k], vehicle_param(), obs_box, buffer) for an     *)
(* index inside the vector.                                                *)
(***************************************************************************)
check_overlap(ov, k) == (k + 1) \in ov

(***************************************************************************)
(* The two-end scan, the same loop at lines 126-152 and at lines 196-222.  *)
(* A scan state holds the cursors and flags of the code                    *)
(* and, as instrumentation, the indices at which veh_path was read, the    *)
(* number of loop bodies run, whether high_index wrapped around, and       *)
(* whether veh_path was read outside [0, n-1] (where the scan stops: what  *)
(* follows is undefined).                                                  *)
(***************************************************************************)
ScanStart(n) ==
  [low_index |-> 0, high_index |-> (n - 1) % UIntModulus,
   find_low |-> FALSE, find_high |-> FALSE,
   tested |-> {}, iters |-> 0, wrapped |-> FALSE, oob |-> FALSE]

NoScan == ScanStart(1)

ScanContinueStrict(st) ==
  /\ st.high_index > st.low_index
  /\ ~(st.find_high /\ st.find_low)

ScanContinue(st) ==
  /\ st.high_index >= st.low_index
  /\ ~(st.find_high /\ st.find_low)

LowStep(n, ov, st) ==
  IF st.find_low THEN st
  ELSE IF st.low_index >= n
    THEN [st EXCEPT !.tested = @ \cup {st.low_index}, !.oob = TRUE]
  ELSE IF ~check_overlap(ov, st.low_index)
    THEN [st EXCEPT !.tested = @ \cup {st.low_index},
                    !.low_index = (@ + 1) % UIntModulus]
  ELSE [st EXCEPT !.tested = @ \cup {st.low_index}, !.find_low = TRUE]

HighStep(n, ov, st) ==
  IF st.find_high THEN st
  ELSE IF st.high_index >= n
    THEN [st EXCEPT !.tested = @ \cup {st.high_index}, !.oob = TRUE]
  ELSE IF ~check_overlap(ov, st.high_index)
    THEN [st EXCEPT !.tested = @ \cup {st.high_index},
                    !.high_index = (@ - 1) % UIntModulus,
                    !.wrapped = (@ \/ st.high_index = 0)]
  ELSE [st EXCEPT !.tested = @ \cup {st.high_index}, !.find_high = TRUE]

ScanBody(n, ov, st) ==
  Bind(LowStep(n, ov, [st EXCEPT !.iters = @ + 1]),
       LAMBDA a : IF a.oob THEN a ELSE HighStep(n, ov, a))

RECURSIVE ScanLoop(_, _, _)
ScanLoop(n, ov, st) ==
  IF st.oob \/ ~ScanContinue(st) THEN st
  ELSE Bind(ScanBody(n, ov, st), LAMBDA next : ScanLoop(n, ov, next))

Scan(n, ov) == ScanLoop(n, ov, ScanStart(n))

(***************************************************************************)
(* What a read outside veh_path may lead to: the call does not return, or  *)
(* the scan ends with arbitrary flags and the stations read are arbitrary. *)
(***************************************************************************)
NoUB == [kind |-> "none", find |-> FALSE, s_low |-> 0, s_high |-> 0]

UBOutcomes ==
  {[kind |-> "crash", find |-> FALSE, s_low |-> 0, s_high |-> 0]} \cup
  [kind : {"return"}, find : BOOLEAN, s_low : Stations, s_high : Stations]

UBChoices(ub) == IF ub THEN UBOutcomes ELSE {NoUB}

(***************************************************************************)
(* The interval of one scan: found or not, and the stations of the two     *)
(* cursors clipped to planning_distance.                                   *)
(***************************************************************************)
ClipNone(s, pd) == s

Clip(s, pd) == Min(s, pd)

Interval(p, ov, pd, u) ==
  Bind(Scan(Len(p), ov),
       LAMBDA sc :
         IF sc.oob
         THEN [scan |-> sc, ub |-> TRUE, crash |-> u.kind = "crash",
               found |-> u.find,
               s_upper |-> Clip(u.s_high, pd), s_lower |-> Clip(u.s_low, pd)]
         ELSE IF sc.find_high /\ sc.find_low
         THEN [scan |-> sc, ub |-> FALSE, crash |-> FALSE, found |-> TRUE,
               s_upper |-> Clip(p[sc.high_index + 1], pd),
               s_lower |-> Clip(p[sc.low_index + 1], pd)]
         ELSE [scan |-> sc, ub |-> FALSE, crash |-> FALSE, found |-> FALSE,
               s_upper |-> 0, s_lower |-> 0])

(***************************************************************************)
(* map_obstacle_without_trajectory                                         *)
(***************************************************************************)
Rectangle(s_lower, s_upper, pt) ==
  <<STPoint(s_lower, 0), STPoint(s_lower, pt),
    STPoint(s_upper, pt), STPoint(s_upper, 0)>>

map_obstacle_without_trajectory(ob, p, pd, pt, boundary, u) ==
  IF Len(p) = 0
  THEN [status |-> ErrPathEmpty, boundary |-> boundary, scan |-> NoScan,
        ub |-> FALSE]
  ELSE Bind(Interval(p, ob.ov, pd, u),
            LAMBDA iv :
              IF iv.crash
              THEN [status |-> Crashed, boundary |-> boundary,
                    scan |-> iv.scan, ub |-> TRUE]
              ELSE IF iv.found /\ DoubleCompare(iv.s_lower, iv.s_upper) < 0
              THEN [status |-> OK,
                    boundary |->
                      Append(boundary, Rectangle(iv.s_lower, iv.s_upper, pt)),
                    scan |-> iv.scan, ub |-> iv.ub]
              ELSE [status |-> OK, boundary |-> boundary, scan |-> iv.scan,
                    ub |-> iv.ub])

(***************************************************************************)
(* map_obstacle_with_trajectory.  lower_points and upper_points are        *)
(* declared before the loop over the trajectories; boundary_points is a    *)
(* local of the loop body and is stored nowhere: `built` records, per      *)
(* trajectory that reaches line 170, the value it was given.               *)
(***************************************************************************)
SampleBody(pt, p, pd, u, acc) ==
  IF Len(p) = 0
  THEN [acc EXCEPT !.done = TRUE, !.status = OK]
  ELSE Bind(Interval(p, pt.ov, pd, u),
            LAMBDA iv :
              IF iv.crash
              THEN [acc EXCEPT !.done = TRUE, !.status = Crashed, !.ub = TRUE]
              ELSE IF iv.found /\ ~(DoubleCompare(iv.s_lower, iv.s_upper) >= 0)
              THEN [acc EXCEPT
                      !.skip = FALSE,
                      !.lower_points =
                         Append(@, STPoint(iv.s_lower, pt.relative_time)),
                      !.upper_points =
                         Append(@, STPoint(iv.s_upper, pt.relative_time)),
                      !.ub = (@ \/ iv.ub)]
              ELSE [acc EXCEPT !.ub = (@ \/ iv.ub)])

RECURSIVE SampleLoop(_, _, _, _, _, _)
SampleLoop(pred_traj, j, p, pd, u, acc) ==
  IF acc.done \/ j > Len(pred_traj) THEN acc
  ELSE Bind(SampleBody(pred_traj[j], p, pd, u, acc),
            LAMBDA a : SampleLoop(pred_traj, j + 1, p, pd, u, a))

TrajectoryBody(pred_traj, i, p, pd, u, acc) ==
  Bind(SampleLoop(pred_traj, 1, p, pd, u, [acc EXCEPT !.skip = TRUE]),
       LAMBDA a :
         IF a.done \/ a.skip THEN a
         ELSE [a EXCEPT !.built =
                 Append(@, [traj |-> i,
                            boundary_points |->
                              a.lower_points \o Reverse(a.upper_points)])])

RECURSIVE TrajectoryLoop(_, _, _, _, _, _)
TrajectoryLoop(trajs, i, p, pd, u, acc) ==
  IF acc.done \/ i > Len(trajs) THEN acc
  ELSE Bind(TrajectoryBody(trajs[i], i, p, pd, u, acc),
            LAMBDA a : TrajectoryLoop(trajs, i + 1, p, pd, u, a))

map_obstacle_with_trajectory(ob, p, pd, pt, boundary, u) ==
  Bind(TrajectoryLoop(ob.trajs, 1, p, pd, u,
         [lower_points |-> <<>>, upper_points |-> <<>>, skip |-> TRUE,
          built |-> <<>>, status |-> OK, done |-> FALSE, ub |-> FALSE]),
       LAMBDA a : [status |-> a.status, boundary |-> boundary,
                   built |-> a.built, ub |-> a.ub])

(***************************************************************************)
(* get_graph_boundary.  `mapped` counts the per-obstacle calls made.       *)
(***************************************************************************)
ParamsErrorOnePoint(p, pt) ==
  IF pt < 0 THEN ErrPlanningTime
  ELSE IF Len(p) < 1 THEN ErrPathPoints
  ELSE OK

ParamsError(p, pt) ==
  IF pt < 0 THEN ErrPlanningTime
  ELSE IF Len(p) < 2 THEN ErrPathPoints
  ELSE OK

StepResult(acc, r, err) ==
  [acc EXCEPT !.boundary = r.boundary,
              !.mapped = @ + 1,
              !.ub = (@ \/ r.ub),
              !.done = (r.status # OK),
              !.status = IF r.status = OK THEN OK
                         ELSE IF r.status = Crashed THEN Crashed
                         ELSE err]

RECURSIVE StaticLoop(_, _, _, _, _, _, _)
StaticLoop(static_obs_vec, i, p, pd, pt, u, acc) ==
  IF acc.done \/ i > Len(static_obs_vec) THEN acc
  ELSE IF static_obs_vec[i].null
  THEN StaticLoop(static_obs_vec, i + 1, p, pd, pt, u, acc)
  ELSE Bind(map_obstacle_without_trajectory(static_obs_vec[i], p, pd, pt,
                                            acc.boundary, u),
            LAMBDA r :
              Bind(StepResult(acc, r, ErrMapStatic),
                   LAMBDA a :
                     StaticLoop(static_obs_vec, i + 1, p, pd, pt, u, a)))

RECURSIVE DynamicLoop(_, _, _, _, _, _, _)
DynamicLoop(dynamic_obs_vec, i, p, pd, pt, u, acc) ==
  IF acc.done \/ i > Len(dynamic_obs_vec) THEN acc
  ELSE IF dynamic_obs_vec[i].null
  THEN DynamicLoop(dynamic_obs_vec, i + 1, p, pd, pt, u, acc)
  ELSE Bind(map_obstacle_with_trajectory(dynamic_obs_vec[i], p, pd, pt,
                                         acc.boundary, u),
            LAMBDA r :
              Bind(StepResult(acc, r, ErrMapDynamic),
                   LAMBDA a :
                     DynamicLoop(dynamic_obs_vec, i + 1, p, pd, pt, u, a)))

get_graph_boundary(static_obs_vec, dynamic_obs_vec, p, pd, pt, boundary, u) ==
  IF ParamsError(p, pt) # OK
  THEN [status |-> ParamsError(p, pt), boundary |-> boundary, mapped |-> 0,
        done |-> TRUE, ub |-> FALSE]
  ELSE Bind(StaticLoop(static_obs_vec, 1, p, pd, pt, u,
              [status |-> OK, boundary |-> <<>>, mapped |-> 0,
               done |-> FALSE, ub |-> FALSE]),
            LAMBDA a : DynamicLoop(dynamic_obs_vec, 1, p, pd, pt, u, a))

(***************************************************************************)
(* Inputs.  A path is a non-decreasing sequence of stations.  A static     *)
(* obstacle is given by the samples its box overlaps; a dynamic obstacle   *)
(* by its trajectories, each a sequence of trajectory points with the      *)
(* samples its box overlaps at that point.  An entry of an obstacle list   *)
(* may be nullptr.                                                         *)
(***************************************************************************)
NonDecreasing(p) == \A k \in 1..(Len(p) - 1) : p[k] <= p[k + 1]

PathsOfLen(n) == {p \in [1..n -> Stations] : NonDecreasing(p)}

Paths == UNION {PathsOfLen(n) : n \in 0..MaxPathLen}

nullptr == [null |-> TRUE]

StaticObstacle(ov) == [null |-> FALSE, ov |-> ov]

DynamicObstacle(trajs) == [null |-> FALSE, trajs |-> trajs]

TrajectoryPoint(j, ov) == [relative_time |-> j - 1, ov |-> ov]

Trajectory(q) == [j \in 1..Len(q) |-> TrajectoryPoint(j, q[j])]

SamplePatterns(n) ==
  {S \in {{}, 1..n, 2..n, {n}, {1, n}} : S \subseteq 1..n}

Trajectories(n) ==
  {Trajectory(q) : q \in UNION {[1..m -> SamplePatterns(n)] : m \in 0..MaxSamples}}

DynamicObstacles(n) ==
  {DynamicObstacle(ts) :
     ts \in UNION {[1..k -> Trajectories(n)] : k \in 0..MaxTraj}}

StaticEntries(n) ==
  {nullptr} \cup {StaticObstacle(ov) : ov \in SamplePatterns(n)}

DynamicEntries(n) ==
  {nullptr,
   DynamicObstacle(<<>>),
   DynamicObstacle(<<Trajectory(<<1..n>>)>>),
   DynamicObstacle(<<Trajectory(<<{}, 1..n>>), Trajectory(<<2..n>>)>>)}

ObstacleLists(n) ==
  UNION {[1..a -> StaticEntries(n)] \X [1..b -> DynamicEntries(n)] :
           a \in 0..MaxObs, b \in 0..MaxObs}

StaleBoundary == Rectangle(0, 3, 1)

PriorOutputs == {<<>>, <<StaleBoundary>>}

Init ==
  /\ op = "none"
  /\ path = <<>>
  /\ planning_distance = 0
  /\ planning_time = 0
  /\ static_obs = <<>>
  /\ dynamic_obs = <<>>
  /\ obstacle = nullptr
  /\ pre_boundary \in PriorOutputs
  /\ obs_boundary = pre_boundary
  /\ status = OK
  /\ scan = NoScan
  /\ built = <<>>
  /\ mapped = 0

(***************************************************************************)
(* A call of map_obstacle_without_trajectory on one static obstacle.       *)
(***************************************************************************)
CallMapObstacleWithoutTrajectory ==
  /\ op = "none"
  /\ \E p \in Paths, pd \in PlanningDistances, pt \in PlanningTimes :
       \E ov \in SUBSET (1..Len(p)) :
         \E r0 \in {map_obstacle_without_trajectory(StaticObstacle(ov), p, pd,
                                                    pt, obs_boundary, NoUB)} :
           \E u \in UBChoices(r0.ub) :
             \E r \in {map_obstacle_without_trajectory(StaticObstacle(ov), p,
                                                       pd, pt, obs_boundary,
                                                       u)} :
               /\ op' = "static"
               /\ path' = p
               /\ planning_distance' = pd
               /\ planning_time' = pt
               /\ obstacle' = StaticObstacle(ov)
               /\ obs_boundary' = r.boundary
               /\ status' = r.status
               /\ scan' = r.scan
               /\ UNCHANGED <<static_obs, dynamic_obs, pre_boundary, built,
                              mapped>>

(***************************************************************************)
(* A call of map_obstacle_with_trajectory on one dynamic obstacle.         *)
(***************************************************************************)
CallMapObstacleWithTrajectory ==
  /\ op = "none"
  /\ \E p \in Paths, pd \in PlanningDistances, pt \in PlanningTimes :
       \E ob \in DynamicObstacles(Len(p)) :
         \E r0 \in {map_obstacle_with_trajectory(ob, p, pd, pt, obs_boundary,
                                                 NoUB)} :
           \E u \in UBChoices(r0.ub) :
             \E r \in {map_obstacle_with_trajectory(ob, p, pd, pt,
                                                    obs_boundary, u)} :
               /\ op' = "dynamic"
               /\ path' = p
               /\ planning_distance' = pd
               /\ planning_time' = pt
               /\ obstacle' = ob
               /\ obs_boundary' = r.boundary
               /\ status' = r.status
               /\ built' = r.built
               /\ UNCHANGED <<static_obs, dynamic_obs, pre_boundary, scan,
                              mapped>>

(***************************************************************************)
(* A call of get_graph_boundary.  The two obstacle lists together hold at  *)
(* most MaxObs entries.                                                    *)
(***************************************************************************)
CallGetGraphBoundary ==
  /\ op = "none"
  /\ \E p \in Paths, pd \in PlanningDistances, pt \in PlanningTimes :
       \E ol \in ObstacleLists(Len(p)) :
         /\ Len(ol[1]) + Len(ol[2]) <= MaxObs
         /\ \E r0 \in {get_graph_boundary(ol[1], ol[2], p, pd, pt,
                                          obs_boundary, NoUB)} :
              \E u \in UBChoices(r0.ub) :
                \E r \in {get_graph_boundary(ol[1], ol[2], p, pd, pt,
                                             obs_boundary, u)} :
                  /\ op' = "map"
                  /\ path' = p
                  /\ planning_distance' = pd
                  /\ planning_time' = pt
                  /\ static_obs' = ol[1]
                  /\ dynamic_obs' = ol[2]
                  /\ obs_boundary' = r.boundary
                  /\ status' = r.status
                  /\ mapped' = r.mapped
                  /\ UNCHANGED <<obstacle, pre_boundary, scan, built>>

Next ==
  \/ CallMapObstacleWithoutTrajectory
  \/ CallMapObstacleWithTrajectory
  \/ CallGetGraphBoundary

Spec == Init /\ [][Next]_vars

SpecStatic == Init /\ [][CallMapObstacleWithoutTrajectory]_vars

SpecDynamic == Init /\ [][CallMapObstacleWithTrajectory]_vars

SpecMap == Init /\ [][CallGetGraphBoundary]_vars

(***************************************************************************)
(* What sections 4.2 to 4.4 of the specification expect of an obstacle     *)
(* whose box overlaps the samples `ov` of path p: the interval runs from   *)
(* the first to the last overlapping sample, is clipped to                 *)
(* planning_distance, and counts when its lower station is below its upper *)
(* station by more than the tolerance.                                     *)
(***************************************************************************)
LowerStation(p, ov, pd) == Min(p[SetMin(ov)], pd)

UpperStation(p, ov, pd) == Min(p[SetMax(ov)], pd)

ValidInterval(p, ov, pd) ==
  /\ ov # {}
  /\ UpperStation(p, ov, pd) - LowerStation(p, ov, pd) > Epsilon

ValidPoints(traj, p, pd) ==
  SelectSeq(traj, LAMBDA tp : ValidInterval(p, tp.ov, pd))

ExpectedPolygon(traj, p, pd) ==
  LET v == ValidPoints(traj, p, pd)
      lower == [k \in 1..Len(v) |->
                  STPoint(LowerStation(p, v[k].ov, pd), v[k].relative_time)]
      upper == [k \in 1..Len(v) |->
                  STPoint(UpperStation(p, v[Len(v) + 1 - k].ov, pd),
                          v[Len(v) + 1 - k].relative_time)]
  IN  lower \o upper

RECURSIVE ExpectedDynamic(_, _, _)
ExpectedDynamic(trajs, p, pd) ==
  IF trajs = <<>> THEN <<>>
  ELSE (IF ValidPoints(Head(trajs), p, pd) = <<>> THEN <<>>
        ELSE <<ExpectedPolygon(Head(trajs), p, pd)>>)
       \o ExpectedDynamic(Tail(trajs), p, pd)

RECURSIVE ExpectedStaticList(_, _, _, _)
ExpectedStaticList(obs, p, pd, pt) ==
  IF obs = <<>> THEN <<>>
  ELSE (IF ~Head(obs).null /\ ValidInterval(p, Head(obs).ov, pd)
        THEN <<Rectangle(LowerStation(p, Head(obs).ov, pd),
                         UpperStation(p, Head(obs).ov, pd), pt)>>
        ELSE <<>>)
       \o ExpectedStaticList(Tail(obs), p, pd, pt)

RECURSIVE ExpectedDynamicList(_, _, _)
ExpectedDynamicList(obs, p, pd) ==
  IF obs = <<>> THEN <<>>
  ELSE (IF Head(obs).null THEN <<>>
        ELSE ExpectedDynamic(Head(obs).trajs, p, pd))
       \o ExpectedDynamicList(Tail(obs), p, pd)

RemoveNull(obs) == SelectSeq(obs, LAMBDA e : ~e.null)

InvalidInput == {ErrPlanningTime, ErrPathPoints}

BoundaryStations(b) == {b[k][1] : k \in 1..Len(b)}

TimeAscending(pts) == \A k \in 1..(Len(pts) - 1) : pts[k][2] <= pts[k + 1][2]

TimeDescending(pts) == \A k \in 1..(Len(pts) - 1) : pts[k][2] >= pts[k + 1][2]

(***************************************************************************)
(* C1: a call of get_graph_boundary with planning_time < 0 or a path of    *)
(* fewer than 2 samples returns one of the two validation errors, has      *)
(* mapped no obstacle and leaves the output collection as it was; a call   *)
(* with planning_time >= 0 and at least 2 samples returns neither.         *)
(***************************************************************************)
C1_ValidationFailsFast ==
  op = "map" =>
    IF planning_time < 0 \/ Len(path) < 2
    THEN /\ status \in InvalidInput
         /\ mapped = 0
         /\ obs_boundary = pre_boundary
    ELSE status \notin InvalidInput

C1_Witness ==
  /\ op = "map"
  /\ planning_time >= 0
  /\ Len(path) = 1
  /\ \E i \in 1..Len(static_obs) : ~static_obs[i].null
  /\ pre_boundary # <<>>
  /\ status = ErrPathPoints

(***************************************************************************)
(* C2: after map_obstacle_with_trajectory returns, the output collection   *)
(* has grown by exactly one boundary per trajectory that has a sample with *)
(* a valid interval, the polygon of that trajectory (its lower sequence    *)
(* followed by its reversed upper sequence), and by nothing for a          *)
(* trajectory without a valid sample.  Stated for paths of at least 2      *)
(* samples, on which the scan reads no index outside the path.             *)
(***************************************************************************)
C2_OneBoundaryPerTrajectory ==
  op = "dynamic" /\ Len(path) >= 2 =>
    obs_boundary =
      pre_boundary \o ExpectedDynamic(obstacle.trajs, path, planning_distance)

NoValidInterval ==
  /\ \A i \in 1..Len(static_obs) :
       \/ static_obs[i].null
       \/ ~ValidInterval(path, static_obs[i].ov, planning_distance)
  /\ \A i \in 1..Len(dynamic_obs) :
       \/ dynamic_obs[i].null
       \/ \A j \in 1..Len(dynamic_obs[i].trajs) :
            ValidPoints(dynamic_obs[i].trajs[j], path, planning_distance) = <<>>

(***************************************************************************)
(* C3: in the output of a successful get_graph_boundary, every vertex of   *)
(* every boundary has a station <= planning_distance and the lower station *)
(* of every boundary is below its upper station by more than the           *)
(* tolerance; when no obstacle has two overlapping samples whose clipped   *)
(* stations differ by more than the tolerance, the output is empty.        *)
(***************************************************************************)
C3_ClippedAndStrict ==
  op = "map" /\ status = OK =>
    /\ \A k \in 1..Len(obs_boundary) :
         /\ \A s \in BoundaryStations(obs_boundary[k]) : s <= planning_distance
         /\ BoundaryStations(obs_boundary[k]) # {}
         /\ DoubleCompare(SetMin(BoundaryStations(obs_boundary[k])),
                          SetMax(BoundaryStations(obs_boundary[k]))) < 0
    /\ (NoValidInterval => obs_boundary = <<>>)

C3_Witness ==
  /\ op = "map"
  /\ status = OK
  /\ \E i \in 1..Len(path) : path[i] > planning_distance
  /\ \E k \in 1..Len(obs_boundary) :
       planning_distance \in BoundaryStations(obs_boundary[k])
  /\ \E i \in 1..Len(static_obs) :
       /\ ~static_obs[i].null
       /\ static_obs[i].ov # {}
       /\ ~ValidInterval(path, static_obs[i].ov, planning_distance)

(***************************************************************************)
(* C4: map_obstacle_without_trajectory on a non-empty path returns having  *)
(* appended exactly the rectangle (s_lower,0), (s_lower,planning_time),    *)
(* (s_upper,planning_time), (s_upper,0) of the clipped stations of the two *)
(* cursors when the scan found both and s_lower < s_upper, and having      *)
(* appended nothing otherwise.                                             *)
(***************************************************************************)
C4_StaticRectangle ==
  op = "static" /\ Len(path) >= 1 =>
    /\ status = OK
    /\ IF /\ scan.find_low /\ scan.find_high
          /\ DoubleCompare(Min(path[scan.low_index + 1], planning_distance),
                           Min(path[scan.high_index + 1], planning_distance)) < 0
       THEN obs_boundary =
              Append(pre_boundary,
                     Rectangle(Min(path[scan.low_index + 1], planning_distance),
                               Min(path[scan.high_index + 1], planning_distance),
                               planning_time))
       ELSE obs_boundary = pre_boundary

(***************************************************************************)
(* C5: for every trajectory of a dynamic obstacle with a valid sample,     *)
(* map_obstacle_with_trajectory builds one polygon for it, of exactly      *)
(* 2 x (its number of valid samples) vertices, all from its own samples,   *)
(* the first half time-ascending and the second half time-descending; for  *)
(* a trajectory without a valid sample it builds none.  Stated for paths   *)
(* of at least 2 samples, on which the scan reads no index outside the     *)
(* path.                                                                   *)
(***************************************************************************)
C5_PolygonPerTrajectory ==
  op = "dynamic" /\ Len(path) >= 2 =>
    \A i \in 1..Len(obstacle.trajs) :
      LET v == ValidPoints(obstacle.trajs[i], path, planning_distance)
          polys == SelectSeq(built, LAMBDA b : b.traj = i)
      IN  IF v = <<>> THEN polys = <<>>
          ELSE /\ Len(polys) = 1
               /\ Len(polys[1].boundary_points) = 2 * Len(v)
               /\ polys[1].boundary_points =
                    ExpectedPolygon(obstacle.trajs[i], path, planning_distance)
               /\ TimeAscending(SubSeq(polys[1].boundary_points, 1, Len(v)))
               /\ TimeDescending(SubSeq(polys[1].boundary_points,
                                        Len(v) + 1, 2 * Len(v)))

(***************************************************************************)
(* C6: after a successful get_graph_boundary the output collection holds   *)
(* exactly the boundaries of the non-null static obstacles in list order   *)
(* followed by those of the non-null dynamic obstacles in list order,      *)
(* whatever it held before, and equals the output of the call on the lists *)
(* without their null entries.                                             *)
(***************************************************************************)
C6_StaticThenDynamic ==
  op = "map" /\ status = OK =>
    /\ obs_boundary =
         ExpectedStaticList(static_obs, path, planning_distance, planning_time)
         \o ExpectedDynamicList(dynamic_obs, path, planning_distance)
    /\ obs_boundary =
         get_graph_boundary(RemoveNull(static_obs), RemoveNull(dynamic_obs),
                            path, planning_distance, planning_time,
                            pre_boundary, NoUB).boundary

(***************************************************************************)
(* Within get_graph_boundary no per-obstacle call fails: the call returns  *)
(* OK or one of the two validation errors.                                 *)
(***************************************************************************)
MapStepNeverFails ==
  op = "map" => status \in {OK} \cup InvalidInput

(***************************************************************************)
(* C8: on a path of at least 2 samples the scan ends with both cursors     *)
(* found exactly when some sample overlaps; then low_index is the first    *)
(* and high_index the last overlapping sample (all of the overlapping      *)
(* samples when they form one run); when no sample overlaps nothing is     *)
(* appended to the output.                                                 *)
(***************************************************************************)
C8_ScanFindsFirstAndLast ==
  op = "static" /\ Len(path) >= 2 =>
    /\ (scan.find_low /\ scan.find_high) <=> obstacle.ov # {}
    /\ obstacle.ov # {} =>
         /\ scan.low_index + 1 = SetMin(obstacle.ov)
         /\ scan.high_index + 1 = SetMax(obstacle.ov)
         /\ (obstacle.ov = SetMin(obstacle.ov)..SetMax(obstacle.ov)
               => obstacle.ov = (scan.low_index + 1)..(scan.high_index + 1))
    /\ obstacle.ov = {} => obs_boundary = pre_boundary

C8_Witness ==
  /\ op = "static"
  /\ Len(path) = 3
  /\ obstacle.ov = {2}
  /\ scan.find_low
  /\ scan.find_high
  /\ scan.low_index = 1
  /\ scan.high_index = 1

(***************************************************************************)
(* C9: map_obstacle_without_trajectory and map_obstacle_with_trajectory,   *)
(* called with an empty path, return the empty-path error and add nothing  *)
(* to the output collection.                                               *)
(***************************************************************************)
C9_EmptyPathIsAnError ==
  op \in {"static", "dynamic"} /\ Len(path) = 0 =>
    /\ status = ErrPathEmpty
    /\ obs_boundary = pre_boundary

(***************************************************************************)
(* C10: in the scan over a non-empty path of n samples every index at      *)
(* which veh_path is read lies in [0, n-1], high_index never wraps around, *)
(* and the loop body runs at most n times.                                 *)
(***************************************************************************)
C10_ScanStaysInBounds ==
  op = "static" /\ Len(path) >= 1 =>
    /\ scan.tested \subseteq 0..(Len(path) - 1)
    /\ ~scan.wrapped
    /\ ~scan.oob
    /\ scan.iters <= Len(path)

====
